---- MODULE Spec2Model ----
(***************************************************************************)
(* safewalk: the walkability graph builder (graph.rs), the tag-based risk  *)
(* scorer (safety.rs) and the route handler (main.rs).                     *)
(*                                                                         *)
(* Units.  Coordinates are integers in 1e-4 degree; distances are          *)
(* centimetres; safety scores are hundredths (0.05 = 5, 1.0 = 100).  The   *)
(* search costs of calculate_route are kept multiplied by 100, so          *)
(* distance * (1 + alpha * score) is distance_cm * (100 + alpha * score).  *)
(***************************************************************************)
EXTENDS Integers, Sequences, FiniteSets, TLC

VARIABLES
    phase,        \* where main() is: "init", "pass2", "built", "serving", "aborted", "exited"
    safety_map,   \* the SafetyMap handed to from_pbf
    temp_nodes,   \* from_pbf: OSM id -> coordinate, filled by pass 1
    graph,        \* from_pbf: the petgraph Graph under construction
    osm_id_map,   \* from_pbf: OSM id -> NodeIndex
    way,          \* from_pbf: the Element::Way the pass-2 callback last received
    waysDone,     \* number of ways pass 2 has delivered
    nav_graph,    \* AppState.nav_graph once built (None before)
    inflight,     \* route requests accepted whose handler task has not run yet
    lastResp,     \* the outcome of the handler that ran last
    risk_call     \* a call of calculate_edge_risk: its argument, then its result

vars == <<phase, safety_map, temp_nodes, graph, osm_id_map, way, waysDone,
          nav_graph, inflight, lastResp, risk_call>>

\* ---------------------------------------------------------------- bounds

MaxWays == 2
MaxRefs == 3
MaxInflight == 2

\* Option<T>: None is the empty set, Some(x) the set of x alone.
None == {}
Some(x) == {x}
Unwrap(o) == CHOOSE x \in o : TRUE
EmptyMap == <<>>
EmptyGraph == [nodes |-> <<>>, edges |-> <<>>]

\* ------------------------------------------------------------- geometry

\* Four points of an extract around 30.35 N 76.37 E and one coordinate far
\* outside it.
PlaceS == [lat |-> 303506, lon |-> 763720]
PlaceA == [lat |-> 303502, lon |-> 763724]
PlaceB == [lat |-> 303510, lon |-> 763700]
PlaceG == [lat |-> 303500, lon |-> 763700]
PlaceFar == [lat |-> 310000, lon |-> 770000]

OsmPoints == (1 :> PlaceS) @@ (2 :> PlaceA) @@ (3 :> PlaceB) @@ (4 :> PlaceG)

Restrict(f, D) == [x \in (DOMAIN f) \cap D |-> f[x]]

\* geo's Point::haversine_distance (mean earth radius 6371008.8 m), rounded
\* to the centimetre, for the coordinates above.
haversine_distance(p, q) ==
    IF p = q THEN 0
    ELSE LET k == {p, q} IN
         CASE k = {PlaceS, PlaceA} -> 5875
           [] k = {PlaceS, PlaceB} -> 19700
           [] k = {PlaceS, PlaceG} -> 20318
           [] k = {PlaceS, PlaceFar} -> 9392191
           [] k = {PlaceA, PlaceB} -> 24688
           [] k = {PlaceA, PlaceG} -> 23137
           [] k = {PlaceA, PlaceFar} -> 9393174
           [] k = {PlaceB, PlaceG} -> 11120
           [] k = {PlaceB, PlaceFar} -> 9401011
           [] k = {PlaceG, PlaceFar} -> 9409569

\* floor(sqrt(x)) by bisection
RECURSIVE SqrtBetween(_, _, _)
SqrtBetween(x, lo, hi) ==
    IF lo >= hi THEN lo
    ELSE LET mid == (lo + hi + 1) \div 2 IN
         IF mid * mid <= x THEN SqrtBetween(x, mid, hi)
         ELSE SqrtBetween(x, lo, mid - 1)

Isqrt(x) == SqrtBetween(x, 0, 46340)

\* ----------------------------------------------------------------- tags

TagKeys == {"highway", "lit", "sidewalk", "surface", "foot"}
Absent == "(absent)"

\* A way's tags: a map from some of the keys to values.
TagsGetOr(tags, key, default) ==
    IF key \in DOMAIN tags THEN tags[key] ELSE default

\* The tag map with the given values, a key left out where its value is Absent.
MkTags(h, l, sw, su, f) ==
    LET all == [k \in TagKeys |->
                  CASE k = "highway" -> h
                    [] k = "lit" -> l
                    [] k = "sidewalk" -> sw
                    [] k = "surface" -> su
                    [] k = "foot" -> f]
    IN [k \in {x \in TagKeys : all[x] # Absent} |-> all[k]]

HighwayValues ==
    {Absent, "footway", "path", "steps", "pedestrian", "living_street",
     "residential", "tertiary", "service", "unclassified", "motorway",
     "trunk", "primary", "secondary", "cycleway"}
LitValues == {Absent, "yes", "24/7", "automatic", "good", "no", "limited"}
SidewalkValues ==
    {Absent, "both", "yes", "separate", "left", "right", "no", "none", "lane"}
SurfaceValues ==
    {Absent, "paved", "asphalt", "concrete", "paving_stones", "unpaved", "dirt",
     "earth", "gravel", "mud", "wood"}
FootValues == {Absent, "yes", "designated", "permissive", "no"}

\* ------------------------------------------------------ safety.rs scorer

BaselineRisk(highway_type) ==
    CASE highway_type \in {"pedestrian", "footway", "path", "steps"} -> 10
      [] highway_type \in {"living_street", "residential"} -> 30
      [] highway_type = "service" -> 50
      [] highway_type \in {"tertiary", "secondary"} -> 70
      [] highway_type \in {"primary", "trunk"} -> 90
      [] OTHER -> 50

LitWeight(tags) ==
    IF "lit" \in DOMAIN tags
    THEN CASE tags["lit"] \in {"yes", "24/7", "automatic", "good"} -> -20
           [] tags["lit"] = "no" -> 30
           [] OTHER -> 0
    ELSE 0

SidewalkWeight(tags) ==
    IF "sidewalk" \in DOMAIN tags
    THEN CASE tags["sidewalk"] \in {"both", "yes", "separate", "left", "right"} -> -20
           [] tags["sidewalk"] \in {"no", "none"} -> 20
           [] OTHER -> 0
    ELSE 0

SurfaceWeight(tags) ==
    IF "surface" \in DOMAIN tags
    THEN CASE tags["surface"] \in {"paved", "asphalt", "concrete", "paving_stones"} -> -5
           [] tags["surface"] \in {"unpaved", "dirt", "earth", "gravel", "mud"} -> 10
           [] OTHER -> 0
    ELSE 0

FootWeight(tags) ==
    IF "foot" \in DOMAIN tags /\ tags["foot"] = "designated" THEN -10 ELSE 0

UnclampedRisk(tags) ==
    BaselineRisk(TagsGetOr(tags, "highway", ""))
        + LitWeight(tags) + SidewalkWeight(tags) + SurfaceWeight(tags)
        + FootWeight(tags)

NoClamp(score, lo, hi) == score

clamp(score, lo, hi) ==
    IF score < lo THEN lo ELSE IF score > hi THEN hi ELSE score

calculate_edge_risk(tags) == clamp(UnclampedRisk(tags), 5, 100)

\* ------------------------------------------------- graph.rs: from_pbf

is_walkable_type(highway) ==
    highway \in {"footway", "path", "steps", "pedestrian", "living_street",
                 "residential", "tertiary", "service", "unclassified"}

is_motor_road(highway) ==
    highway \in {"motorway", "trunk", "primary", "secondary"}

foot_allowed(foot) == foot \in {"yes", "designated", "permissive"}

has_sidewalk(sidewalk) ==
    sidewalk \in {"both", "left", "right", "yes", "separate"}

is_walkable_any_road(tags) ==
    LET highway == TagsGetOr(tags, "highway", "")
    IN is_walkable_type(highway) \/ is_motor_road(highway)

is_walkable(tags) ==
    LET highway == TagsGetOr(tags, "highway", "")
        foot == TagsGetOr(tags, "foot", "")
        sidewalk == TagsGetOr(tags, "sidewalk", "")
    IN is_walkable_type(highway)
         \/ (is_motor_road(highway)
               /\ (foot_allowed(foot) \/ has_sidewalk(sidewalk)))

\* safety_map.get_risk_score(lat, lon): the score the SafetyMap gives a
\* coordinate.
get_risk_score(lat, lon) == safety_map[[lat |-> lat, lon |-> lon]]

\* The builder's two maps as one value: st.graph and st.osm_id_map.
insert_always(st, id, node) ==
    [graph |-> [st.graph EXCEPT !.nodes = Append(@, node)],
     osm_id_map |->
        [x \in (DOMAIN st.osm_id_map) \cup {id} |->
            IF x = id THEN Len(st.graph.nodes) + 1 ELSE st.osm_id_map[x]]]

\* osm_id_map.entry(id).or_insert_with(|| graph.add_node(node))
entry_or_insert(st, id, node) ==
    IF id \in DOMAIN st.osm_id_map
    THEN st
    ELSE [graph |-> [st.graph EXCEPT !.nodes = Append(@, node)],
          osm_id_map |-> st.osm_id_map @@ (id :> (Len(st.graph.nodes) + 1))]

add_edge(g, a, b, edge_data) ==
    [g EXCEPT !.edges =
        Append(@, [source |-> a, target |-> b, weight |-> edge_data])]

add_one_way(g, idx_a, idx_b, edge_data) == add_edge(g, idx_a, idx_b, edge_data)

\* graph.add_edge(idx_a, idx_b, edge_data); graph.add_edge(idx_b, idx_a, edge_data)
add_bidirectional(g, idx_a, idx_b, edge_data) ==
    add_edge(add_edge(g, idx_a, idx_b, edge_data), idx_b, idx_a, edge_data)

\* The body of `for window in refs.windows(2)` for one window.
connect_segment(st, id_a, id_b) ==
    IF id_a \in DOMAIN temp_nodes /\ id_b \in DOMAIN temp_nodes
    THEN LET pa == temp_nodes[id_a]
             pb == temp_nodes[id_b]
             st1 == entry_or_insert(st, id_a, pa)
             st2 == entry_or_insert(st1, id_b, pb)
             idx_a == st2.osm_id_map[id_a]
             idx_b == st2.osm_id_map[id_b]
             dist == haversine_distance(pa, pb)
             safety_a == get_risk_score(pa.lat, pa.lon)
             safety_b == get_risk_score(pb.lat, pb.lon)
             avg_safety == (safety_a + safety_b) \div 2
             edge_data == [distance_meters |-> dist, safety_score |-> avg_safety]
         IN [st2 EXCEPT !.graph = add_bidirectional(@, idx_a, idx_b, edge_data)]
    ELSE st

RECURSIVE connect_windows(_, _)
connect_windows(st, refs) ==
    IF Len(refs) < 2 THEN st
    ELSE connect_windows(connect_segment(st, refs[1], refs[2]), Tail(refs))

\* The pass-2 callback on one Element::Way.
process_way(st, w) ==
    IF is_walkable(w.tags) THEN connect_windows(st, w.refs) ELSE st

\* ------------------------------------------- graph.rs: find_nearest_node

NodePoint(g, n) == g.nodes[n]

find_nearest_node(nav, c) ==
    LET g == nav.graph
        d(n) == haversine_distance(NodePoint(g, n), c)
        idx == 1..Len(g.nodes)
    IN IF idx = {} THEN None
       ELSE Some(CHOOSE a \in idx :
                   \A b \in idx : d(a) < d(b) \/ (d(a) = d(b) /\ a <= b))

\* ------------------------------------------------ petgraph as main.rs uses it

\* graph.edges(n): the edges leaving n, the most recently added first.
RECURSIVE edges_from(_, _, _)
edges_from(g, n, i) ==
    IF i = 0 THEN <<>>
    ELSE IF g.edges[i].source = n
         THEN <<g.edges[i]>> \o edges_from(g, n, i - 1)
         ELSE edges_from(g, n, i - 1)

edges(g, n) == edges_from(g, n, Len(g.edges))

\* g.find_edge(a, b): the first edge of a's list that leads to b.
find_edge(g, a, b) ==
    LET out == SelectSeq(edges(g, a), LAMBDA e : e.target = b)
    IN IF out = <<>> THEN None ELSE Some(Head(out))

\* The edge-cost closure: distance * (1 + alpha * safety_score), times 100.
edge_cost(e, alpha) ==
    e.weight.distance_meters * (100 + alpha * e.weight.safety_score)

\* The heuristic closure: sqrt(d_lat^2 + d_lon^2) * 111_000, in centimetres
\* (coordinates are 1e-4 degree, so one unit is 1110 cm), times 100.
estimate_cost(g, n, end_node) ==
    LET node == g.nodes[n]
        dest == g.nodes[end_node]
        d_lat == node.lat - dest.lat
        d_lon == node.lon - dest.lon
    IN 100 * Isqrt((d_lat * d_lat + d_lon * d_lon) * 1110 * 1110)

Put(f, k, v) == [x \in (DOMAIN f) \cup {k} |-> IF x = k THEN v ELSE f[x]]

\* PathTracker::reconstruct_path_to
RECURSIVE reconstruct_path_to(_, _)
reconstruct_path_to(came_from, last) ==
    IF last \in DOMAIN came_from
    THEN Append(reconstruct_path_to(came_from, came_from[last]), last)
    ELSE <<last>>

\* astar's `for edge in graph.edges(node)` over the edges es still to visit.
RECURSIVE relax_edges(_, _, _, _, _, _, _)
relax_edges(g, end_node, alpha, node, node_score, es, st) ==
    IF es = <<>> THEN st
    ELSE LET edge == Head(es)
             next == edge.target
             next_score == node_score + edge_cost(edge, alpha)
         IN IF next \in DOMAIN st.scores /\ st.scores[next] <= next_score
            THEN relax_edges(g, end_node, alpha, node, node_score, Tail(es), st)
            ELSE relax_edges(g, end_node, alpha, node, node_score, Tail(es),
                    [scores |-> Put(st.scores, next, next_score),
                     estimate_scores |-> st.estimate_scores,
                     came_from |-> Put(st.came_from, next, node),
                     visit_next |-> st.visit_next \cup
                        {<<next_score + estimate_cost(g, next, end_node), next>>}])

\* astar's `while let Some(MinScored(estimate_score, node)) = visit_next.pop()`:
\* every result the loop can end with.  The heap orders its entries by score
\* alone, so any entry of least score may be the one popped.
RECURSIVE astar_loop(_, _, _, _)
astar_loop(g, end_node, alpha, st) ==
    IF st.visit_next = {} THEN {None}
    ELSE LET least == CHOOSE x \in st.visit_next :
                         \A y \in st.visit_next : x[1] <= y[1]
             tops == {x \in st.visit_next : x[1] = least[1]}
             pop(x) ==
                LET estimate_score == x[1]
                    node == x[2]
                    rest == [st EXCEPT !.visit_next = @ \ {x}]
                IN IF node = end_node
                   THEN {Some([cost |-> st.scores[node],
                               nodes |-> reconstruct_path_to(st.came_from, node)])}
                   ELSE IF node \in DOMAIN st.estimate_scores
                           /\ st.estimate_scores[node] <= estimate_score
                   THEN astar_loop(g, end_node, alpha, rest)
                   ELSE astar_loop(g, end_node, alpha,
                           relax_edges(g, end_node, alpha, node, st.scores[node],
                               edges(g, node),
                               [rest EXCEPT !.estimate_scores =
                                   Put(@, node, estimate_score)]))
         IN UNION {pop(x) : x \in tops}

astar(g, start_node, end_node, alpha) ==
    astar_loop(g, end_node, alpha,
        [scores |-> (start_node :> 0),
         estimate_scores |-> EmptyMap,
         came_from |-> EmptyMap,
         visit_next |-> {<<estimate_cost(g, start_node, end_node), start_node>>}])

\* ------------------------------------------------ main.rs: calculate_route

\* The `for (i, &node_idx) in nodes.iter().enumerate()` loop's sum.
RECURSIVE real_distance(_, _)
real_distance(g, nodes) ==
    IF Len(nodes) < 2 THEN 0
    ELSE LET n == Len(nodes)
             edge == find_edge(g, nodes[n - 1], nodes[n])
         IN real_distance(g, SubSeq(nodes, 1, n - 1))
              + (IF edge = None THEN 0 ELSE Unwrap(edge).weight.distance_meters)

format_response(g, path_result) ==
    IF path_result = None
    THEN [status |-> "ok", route |-> None, coordinates |-> <<>>,
          total_distance |-> 0, average_safety |-> 0]
    ELSE LET nodes == Unwrap(path_result).nodes
         IN [status |-> "ok", route |-> Some(nodes),
             coordinates |-> [i \in 1..Len(nodes) |->
                                 <<g.nodes[nodes[i]].lon, g.nodes[nodes[i]].lat>>],
             total_distance |-> real_distance(g, nodes),
             average_safety |-> 0]

\* Option::unwrap on None: the handler task panics and sends no response.
Panicked ==
    [status |-> "panic", route |-> None, coordinates |-> <<>>,
     total_distance |-> 0, average_safety |-> 0]

\* Every outcome of the handler on payload for the shared state nav.
calculate_route(nav, payload) ==
    LET g == nav.graph
        start_node == find_nearest_node(nav, payload.origin)
        end_node == find_nearest_node(nav, payload.destination)
    IN IF start_node = None \/ end_node = None
       THEN {Panicked}
       ELSE {format_response(g, r) :
                r \in astar(g, Unwrap(start_node), Unwrap(end_node), payload.alpha)}

\* ------------------------------------------------------------ main.rs: main

Builder == [graph |-> graph, osm_id_map |-> osm_id_map]

DropBuilder ==
    /\ temp_nodes' = EmptyMap
    /\ graph' = EmptyGraph
    /\ osm_id_map' = EmptyMap
    /\ way' = None

\* Pass 1 reads every Node and DenseNode of the extract into temp_nodes, and
\* the reader of pass 2 opens.
Pass1(table) ==
    /\ phase = "init"
    /\ phase' = "pass2"
    /\ temp_nodes' = table
    /\ UNCHANGED <<risk_call, safety_map, graph, osm_id_map, way, waysDone, nav_graph,
                   inflight, lastResp>>

\* ElementReader::from_path or for_each returns Err in pass 1: `?` returns it
\* and main's expect panics.
Pass1Fail ==
    /\ phase = "init"
    /\ phase' = "aborted"
    /\ DropBuilder
    /\ UNCHANGED <<risk_call, safety_map, waysDone, nav_graph, inflight, lastResp>>

\* The pass-2 callback runs on the next Element::Way of the extract.
Pass2Way(w) ==
    /\ phase = "pass2"
    /\ way = None
    /\ waysDone < MaxWays
    /\ way' = Some(w)
    /\ waysDone' = waysDone + 1
    /\ LET st == process_way(Builder, w)
       IN /\ graph' = st.graph
          /\ osm_id_map' = st.osm_id_map
    /\ UNCHANGED <<risk_call, phase, safety_map, temp_nodes, nav_graph, inflight, lastResp>>

\* The callback returns and the reader drops the element.
WayDropped ==
    /\ phase = "pass2"
    /\ way # None
    /\ way' = None
    /\ UNCHANGED <<risk_call, phase, safety_map, temp_nodes, graph, osm_id_map,
                   waysDone, nav_graph, inflight, lastResp>>

\* The reader of pass 2 fails to open or for_each returns Err part-way.
Pass2Fail ==
    /\ phase = "pass2"
    /\ phase' = "aborted"
    /\ DropBuilder
    /\ UNCHANGED <<risk_call, safety_map, waysDone, nav_graph, inflight, lastResp>>

\* from_pbf returns Ok(Self { graph, osm_id_map }); main wraps it in the Arc.
FinishBuild ==
    /\ phase = "pass2"
    /\ way = None
    /\ phase' = "built"
    /\ nav_graph' = Some(Builder)
    /\ DropBuilder
    /\ UNCHANGED <<risk_call, safety_map, waysDone, inflight, lastResp>>

\* TcpListener::bind succeeds and axum::serve starts taking requests.
BindOk ==
    /\ phase = "built"
    /\ phase' = "serving"
    /\ UNCHANGED <<risk_call, safety_map, temp_nodes, graph, osm_id_map, way, waysDone,
                   nav_graph, inflight, lastResp>>

\* TcpListener::bind fails: main returns the error and the state is dropped.
BindFail ==
    /\ phase = "built"
    /\ phase' = "exited"
    /\ nav_graph' = None
    /\ UNCHANGED <<risk_call, safety_map, temp_nodes, graph, osm_id_map, way, waysDone,
                   inflight, lastResp>>

AcceptEarly(payload) ==
    /\ phase \in {"pass2", "built", "serving"}
    /\ Cardinality(inflight) < MaxInflight
    /\ inflight' = inflight \cup {payload}
    /\ UNCHANGED <<risk_call, phase, safety_map, temp_nodes, graph, osm_id_map, way,
                   waysDone, nav_graph, lastResp>>

\* POST /route arrives: axum spawns calculate_route on a clone of the Arc.
Accept(payload) ==
    /\ phase = "serving"
    /\ Cardinality(inflight) < MaxInflight
    /\ inflight' = inflight \cup {payload}
    /\ UNCHANGED <<risk_call, phase, safety_map, temp_nodes, graph, osm_id_map, way,
                   waysDone, nav_graph, lastResp>>

\* One accepted handler task runs.  calculate_route holds no .await and only
\* reads the state behind the Arc, so it runs as one step whatever else is
\* in flight.
Handle(payload) ==
    /\ phase = "serving"
    /\ payload \in inflight
    /\ inflight' = inflight \ {payload}
    /\ \E out \in calculate_route(Unwrap(nav_graph), payload) :
          lastResp' = Some([req |-> payload, resp |-> out])
    /\ UNCHANGED <<risk_call, phase, safety_map, temp_nodes, graph, osm_id_map, way,
                   waysDone, nav_graph>>

\* -------------------------------------------------------------- inputs

\* What SafetyMap::get_risk_score answers per coordinate: one score
\* everywhere, or a score that differs from point to point.
Places == {PlaceS, PlaceA, PlaceB, PlaceG, PlaceFar}
UniformRisk == [p \in Places |-> 50]
GradedRisk ==
    [p \in Places |->
        CASE p = PlaceS -> 10 [] p = PlaceA -> 30 [] p = PlaceB -> 70
          [] p = PlaceG -> 90 [] OTHER -> 50]
SafetyMaps == {UniformRisk, GradedRisk}

SeqsUpTo(S, n) == UNION {[1..k -> S] : k \in 1..n}

\* Extracts of up to two points, ways over their ids of up to MaxRefs refs.
Tables == {Restrict(OsmPoints, D) : D \in {{}, {1}, {1, 2}}}
WayTags ==
    {MkTags("footway", Absent, Absent, Absent, Absent),
     MkTags("primary", Absent, Absent, Absent, Absent),
     MkTags("primary", "no", "both", Absent, Absent)}
Ways == [refs : SeqsUpTo({1, 2}, MaxRefs), tags : WayTags]
Requests == [origin : {PlaceS, PlaceFar}, destination : {PlaceA}, alpha : {5}]

Init ==
    /\ phase = "init"
    /\ safety_map \in SafetyMaps
    /\ temp_nodes = EmptyMap
    /\ graph = EmptyGraph
    /\ osm_id_map = EmptyMap
    /\ way = None
    /\ waysDone = 0
    /\ nav_graph = None
    /\ inflight = {}
    /\ lastResp = None
    /\ risk_call = None

\* main() from start to serving, on extracts, ways and requests of the
\* given families.
Program(tables, ways, requests) ==
    \/ \E table \in tables : Pass1(table)
    \/ Pass1Fail
    \/ \E w \in ways : Pass2Way(w)
    \/ WayDropped
    \/ Pass2Fail
    \/ FinishBuild
    \/ BindOk
    \/ BindFail
    \/ \E payload \in requests : Accept(payload)
    \/ \E payload \in requests : Handle(payload)

Next == Program(Tables, Ways, Requests)

Spec == Init /\ [][Next]_vars

\* The same program on one two-point extract and ways of every combination
\* of the tags from_pbf reads.
WalkTables == {Restrict(OsmPoints, {1, 2})}
WalkWays ==
    [refs : {<<1, 2>>},
     tags : {MkTags(h, Absent, sw, Absent, f) :
                h \in HighwayValues, sw \in SidewalkValues, f \in FootValues}]
WalkRequests == [origin : {PlaceS}, destination : {PlaceA}, alpha : {5}]

NextWalk == Program(WalkTables, WalkWays, WalkRequests)

SpecWalk == Init /\ [][NextWalk]_vars

\* The same program on the four-point extract with footways between its
\* points, queried between S and G with and without the safety weight.
RouteTables == {OsmPoints}
RouteWays ==
    [refs : {<<1, 2, 4>>, <<1, 3, 4>>, <<1, 4>>, <<1, 2>>, <<2, 4>>, <<1, 3>>,
             <<3, 4>>, <<2, 3>>},
     tags : {MkTags("footway", Absent, Absent, Absent, Absent)}]
RouteRequests ==
    [origin : {PlaceS, PlaceG}, destination : {PlaceS, PlaceG}, alpha : {0, 5}]

NextRoute == Program(RouteTables, RouteWays, RouteRequests)

SpecRoute == Init /\ [][NextRoute]_vars

\* calculate_edge_risk on every tag map over the values above.
AllTags ==
    {MkTags(h, l, sw, su, f) :
        h \in HighwayValues, l \in LitValues, sw \in SidewalkValues,
        su \in SurfaceValues, f \in FootValues}

InitRisk ==
    /\ phase = "init"
    /\ safety_map = UniformRisk
    /\ temp_nodes = EmptyMap
    /\ graph = EmptyGraph
    /\ osm_id_map = EmptyMap
    /\ way = None
    /\ waysDone = 0
    /\ nav_graph = None
    /\ inflight = {}
    /\ lastResp = None
    /\ \E tags \in AllTags : risk_call = Some([tags |-> tags, score |-> None])

ScoreTags ==
    /\ risk_call # None
    /\ Unwrap(risk_call).score = None
    /\ risk_call' = Some([tags |-> Unwrap(risk_call).tags,
                          score |-> Some(calculate_edge_risk(Unwrap(risk_call).tags))])
    /\ UNCHANGED <<phase, safety_map, temp_nodes, graph, osm_id_map, way,
                   waysDone, nav_graph, inflight, lastResp>>

NextRisk == ScoreTags

SpecRisk == InitRisk /\ [][NextRisk]_vars

\* ------------------------------------------------------------- claims

\* The graphs that exist: the one from_pbf is building and the served one.
Graphs == {graph} \cup {nav.graph : nav \in nav_graph}
Builders == {Builder} \cup nav_graph

EdgeCount(g, e) == Cardinality({i \in 1..Len(g.edges) : g.edges[i] = e})

Reversed(e) == [source |-> e.target, target |-> e.source, weight |-> e.weight]

\* C1: every directed edge A->B has as many B->A edges of the same distance
\* and safety score as there are such A->B edges, in the graph under
\* construction after each way and in the served graph.
C1_EdgesSymmetric ==
    \A g \in Graphs : \A e \in {g.edges[i] : i \in 1..Len(g.edges)} :
        EdgeCount(g, e) = EdgeCount(g, Reversed(e))

C1_Witness ==
    /\ phase = "serving"
    /\ \E nav \in nav_graph :
          /\ Len(nav.graph.edges) >= 4
          /\ \E i \in 1..Len(nav.graph.edges) :
                nav.graph.edges[i].source # nav.graph.edges[i].target

\* C3: a handler that could not snap an endpoint or found no path answers
\* the empty result (no coordinates, distance 0, safety 0) and does not crash.
C3_EmptyResultNotCrash ==
    \A r \in lastResp : \A nav \in nav_graph :
        (\/ find_nearest_node(nav, r.req.origin) = None
         \/ find_nearest_node(nav, r.req.destination) = None
         \/ r.resp.route = None)
        => /\ r.resp.status = "ok"
           /\ r.resp.coordinates = <<>>
           /\ r.resp.total_distance = 0
           /\ r.resp.average_safety = 0

\* The walkability rule as the specification words it.
WalkableRule(tags) ==
    LET has(k, vs) == k \in DOMAIN tags /\ tags[k] \in vs
    IN \/ has("highway", {"footway", "path", "steps", "pedestrian",
                          "living_street", "residential", "tertiary", "service",
                          "unclassified"})
       \/ /\ has("highway", {"motorway", "trunk", "primary", "secondary"})
          /\ \/ has("foot", {"yes", "designated", "permissive"})
             \/ has("sidewalk", {"both", "left", "right", "yes", "separate"})

\* The consecutive pairs of a way whose two ids are both in the point table.
ResolvablePairs(w) ==
    {i \in 1..(Len(w.refs) - 1) :
        w.refs[i] \in DOMAIN temp_nodes /\ w.refs[i + 1] \in DOMAIN temp_nodes}

PairedIds(w) ==
    IF WalkableRule(w.tags)
    THEN UNION {{w.refs[i], w.refs[i + 1]} : i \in ResolvablePairs(w)}
    ELSE {}

\* A step in which the pass-2 callback ran on a way.
WayStep == waysDone' = waysDone + 1

\* C5: the edges a way adds all carry the score calculate_edge_risk gives the
\* way's tags, a score in [0.05, 1.0].
C5_EdgesCarryWayScore ==
    [][WayStep =>
         \A i \in (Len(graph.edges) + 1)..Len(graph'.edges) :
            /\ graph'.edges[i].weight.safety_score
                 = calculate_edge_risk(Unwrap(way').tags)
            /\ graph'.edges[i].weight.safety_score \in 5..100]_vars

\* C6: no graph holds an edge from a node to itself.
C6_NoSelfLoops ==
    \A g \in Graphs : \A i \in 1..Len(g.edges) :
        g.edges[i].source # g.edges[i].target

IdMapBijective(st) ==
    LET m == st.osm_id_map
        n == Len(st.graph.nodes)
    IN /\ \A id \in DOMAIN m : m[id] \in 1..n
       /\ \A a, b \in DOMAIN m : m[a] = m[b] => a = b
       /\ \A k \in 1..n : \E id \in DOMAIN m : m[id] = k
       /\ Cardinality(DOMAIN m) = n

\* C7: osm_id_map is at all times a bijection between its ids and the nodes,
\* and a way adds to its ids exactly the ids of the way's resolvable pairs
\* (none if the way is not walkable), two edges per such pair, and never
\* stops the build; so the ids are those of the resolvable pairs of the
\* walkable ways read so far.
C7_IdMapBijection ==
    /\ [](\A st \in Builders : IdMapBijective(st))
    /\ [][WayStep =>
            LET w == Unwrap(way')
            IN /\ DOMAIN osm_id_map' = (DOMAIN osm_id_map) \cup PairedIds(w)
               /\ \A id \in DOMAIN osm_id_map : osm_id_map'[id] = osm_id_map[id]
               /\ Len(graph'.edges) - Len(graph.edges)
                    = IF WalkableRule(w.tags)
                      THEN 2 * Cardinality(ResolvablePairs(w)) ELSE 0
               /\ phase' = phase]_vars

\* Two ways were read that share id 1, which has one node, and the second
\* way's pair with the id missing from the table was skipped.
C7_Witness ==
    /\ waysDone = 2
    /\ DOMAIN temp_nodes = {1}
    /\ DOMAIN osm_id_map = {1}
    /\ Len(graph.nodes) = 1
    /\ Len(graph.edges) = 4
    /\ \E w \in way : WalkableRule(w.tags) /\ w.refs = <<1, 1, 2>>

\* C9: requests are taken and answered only while serving; serving is
\* entered only from a finished build; a failed start leaves no graph and is
\* final; and while serving no step changes the served graph.
C9_ServeOnlyBuiltImmutable ==
    /\ [](inflight # {} \/ lastResp # None => phase = "serving")
    /\ [](phase \in {"init", "pass2", "aborted", "exited"} => nav_graph = None)
    /\ [](phase \in {"built", "serving"} => nav_graph # None)
    /\ [][/\ phase \in {"aborted", "exited"} => phase' = phase
          /\ phase' = "serving" => phase \in {"built", "serving"}
          /\ phase = "serving" => phase' = "serving" /\ nav_graph' = nav_graph]_vars

\* A handler has answered while a second request is in flight.
C9_Witness ==
    /\ phase = "serving"
    /\ lastResp # None
    /\ inflight # {}
    /\ \E nav \in nav_graph : Len(nav.graph.edges) > 0

\* C10: a way changes the graph exactly when the rule holds of its tags (and
\* it has a resolvable pair); a way of which the rule does not hold adds no
\* node, no id and no edge.
C10_WalkableRule ==
    [][WayStep =>
         LET w == Unwrap(way')
         IN /\ (graph' # graph) = (WalkableRule(w.tags) /\ ResolvablePairs(w) # {})
            /\ ~WalkableRule(w.tags) =>
                  graph' = graph /\ osm_id_map' = osm_id_map]_vars

\* A motor road with a sidewalk but no foot tag was read and added its edges.
C10_Witness ==
    /\ \E w \in way :
          /\ TagsGetOr(w.tags, "highway", "") = "trunk"
          /\ TagsGetOr(w.tags, "sidewalk", "") = "separate"
          /\ "foot" \notin DOMAIN w.tags
    /\ waysDone = 1
    /\ Len(graph.edges) = 2

\* C4: calculate_edge_risk answers a score in [0.05, 1.0]; primary, unlit and
\* without sidewalk scores 1.0; with no tag but highway the score is the
\* baseline (0.9 for primary, 0.5 for no tag at all).
C4_RiskInRange ==
    \A c \in risk_call : \A score \in c.score :
        /\ score \in 5..100
        /\ c.tags = MkTags("primary", "no", "no", Absent, Absent) => score = 100
        /\ c.tags = MkTags("primary", Absent, Absent, Absent, Absent) => score = 90
        /\ DOMAIN c.tags = {} => score = 50

C4_Witness ==
    \E c \in risk_call :
        /\ c.tags = MkTags("primary", "no", "no", Absent, Absent)
        /\ c.score = Some(100)

\* The edges from a to b, and the physical length of a node path.
Parallel(g, a, b) ==
    {g.edges[i].weight : i \in {j \in 1..Len(g.edges) :
                                   g.edges[j].source = a /\ g.edges[j].target = b}}

MinOf(S) == CHOOSE x \in S : \A y \in S : x <= y

\* The edge the search went along from a to b: the cheapest one.
Traversed(g, a, b, alpha) ==
    CHOOSE wt \in Parallel(g, a, b) :
        \A other \in Parallel(g, a, b) :
            wt.distance_meters * (100 + alpha * wt.safety_score)
              <= other.distance_meters * (100 + alpha * other.safety_score)

RECURSIVE SumOver(_, _, _, _)
SumOver(g, nodes, alpha, field) ==
    IF Len(nodes) < 2 THEN 0
    ELSE SumOver(g, Tail(nodes), alpha, field)
           + Traversed(g, nodes[1], nodes[2], alpha)[field]

\* The lengths of all simple paths from a to end_node.
RECURSIVE SimplePathLengths(_, _, _, _)
SimplePathLengths(g, a, end_node, seen) ==
    IF a = end_node THEN {0}
    ELSE UNION {
           {wt.distance_meters + rest :
              rest \in SimplePathLengths(g, b, end_node, seen \cup {b}),
              wt \in Parallel(g, a, b)} :
           b \in (1..Len(g.nodes)) \ seen}

\* C2: at alpha = 0 a path the handler found is as short as the shortest of
\* all paths between the two snapped nodes.
C2_ShortestAtAlphaZero ==
    \A r \in lastResp : \A nav \in nav_graph : \A route \in r.resp.route :
        r.req.alpha = 0 =>
            SumOver(nav.graph, route, 0, "distance_meters")
              = MinOf(SimplePathLengths(nav.graph, route[1], route[Len(route)],
                                        {route[1]}))

\* C8: for a path found, average_safety is the mean of the safety scores of
\* the edges gone along and total_distance the sum of their distances.
C8_MeanSafetyAndDistance ==
    \A r \in lastResp : \A nav \in nav_graph : \A route \in r.resp.route :
        Len(route) >= 2 =>
            /\ r.resp.average_safety * (Len(route) - 1)
                 = SumOver(nav.graph, route, r.req.alpha, "safety_score")
            /\ r.resp.total_distance
                 = SumOver(nav.graph, route, r.req.alpha, "distance_meters")

====
